---- MODULE Spec2Model ----
(***************************************************************************)
(* The blink-scan session of neuro-suite: the WebcamCapture component      *)
(* (camera effect, scan effect, processFrame on a 50 ms interval) driven   *)
(* by its parent NeuroScore (startScan, handleScanComplete, the progress   *)
(* interval, handleBlinkDetected, startVisionAnalysis), the serve handler  *)
(* of the neuro-coach edge function, the HRV monitor's evaluations, and    *)
(* the NeuroCoach chat, Gamification and DashboardRH components.           *)
(*                                                                         *)
(* Units: times are integer milliseconds (Date.now()); eye ratios are      *)
(* integer thousandths (0.15 is 150); progress is in sixtieths of a        *)
(* percent (100 % is 6000, one progress step 100/60 % is 100); a rate is   *)
(* the exact fraction <<numerator, denominator>> in lowest terms.          *)
(***************************************************************************)
EXTENDS Integers, Sequences, FiniteSets, TLC

\* ------------------------------------------------------------- bounds
\* Date.now() when the page is constructed.
Epoch == 1000000
\* Timer callbacks explored by Spec.
MaxTicks == 4
\* Timer callbacks explored by SpecWatchdog.
MaxWatchdogTicks == 33
\* Milliseconds of wall clock explored after Epoch.
MaxClock == 60100
\* getUserMedia calls (scans started) explored.
MaxStreams == 2
\* Firings of the parent's progress interval explored per scan.
MaxProgressTicks == 1

\* Blink rates handed to handleBlinkDetected by SpecClassify, in halves per
\* minute: 0, 0.5, ... MaxRateHalves / 2.
MaxRateHalves == 80

\* Gaps between two callbacks of the 50 ms interval: on time, early after a
\* late one, and a throttled (backgrounded) timer.
TickGaps == {40, 50, 59950}
\* Combined eye ratios the landmark model may yield, around both threshold
\* profiles (desktop 150/200, mobile 120/180).
EarSamples == {120, 150, 200, 300}
\* The inputs SpecWatchdog draws: the nominal cadence, an open eye.
WatchdogGaps == {50}
WatchdogEars == {300}

\* The inputs SpecSession draws: the nominal cadence and a throttled timer;
\* a closed eye, an open eye and the two results of a degenerate geometry.
SessionGaps == {50, 59950}
NaN == -1
Infinity == 1000000000
SessionEars == {120, 300, NaN, Infinity}
\* The rmssd values (ms) the HRV monitor may report, on both sides of 30.
HrvSamples == {20, 40}
\* The HRV values handed to handleBlinkDetected by SpecClassify: undefined,
\* below, at and above 30.
ClassifyHrv == {0, 20, 30, 40}

\* -------------------------------------------------- program constants
DEBOUNCE_MS == 100
SCAN_SECONDS == 60
NO_FACE_FRAMES == 10
LOW_LIGHT_FRAMES == 30
HAVE_ENOUGH_DATA == 4
EAR_INITIAL == 1000
EAR_RESET == 300
PROGRESS_FULL == 6000
PROGRESS_STEP == 100

VARIABLES
  \* environment
  now,                \* Date.now()
  ticks,              \* callbacks of the 50 ms interval run so far
  isMobile,           \* /Mobi|Android|iPhone/.test(navigator.userAgent)
  streams,            \* MediaStreams asked for: "pending" | "live" | "stopped" | "ended"
  readyState,         \* video.readyState
  \* NeuroScore
  mounted,
  isScanning,
  isAnalyzing,
  progress,
  scanIntervalRef,    \* TRUE while the progress interval is set and not cleared
  results,            \* calls of onBlinkDetected: [scan, rate, blinks, elapsedMs]
  completions,        \* calls of onScanComplete: the scan's number
  \* WebcamCapture
  effScanning,        \* the isScanning its effects last ran with
  faceLandmarker,     \* TRUE once the landmark model is loaded
  srcObject,          \* videoRef.current.srcObject: 0 (null) or a stream
  intervalRef,        \* TRUE while the 50 ms interval is set
  capBackground,      \* isBackgroundMode as closed over by the interval's processFrame
  blinkCountRef,
  blinkCount,
  currentBlinkRate,   \* thousandths per minute
  scanStartTimeRef,
  lastEARRef,
  lastBlinkTimeRef,
  noFaceFramesRef,
  faceDetected,
  lowLightWarning,
  isBackgroundMode,
  backgroundDataRef,  \* <<blinks, timestamp>> pairs
  \* observers
  lastOutcome,        \* what the last interval callback did
  eyeOpen,            \* the two-state hysteresis detector of the ratio stream
  crossed,            \* the last callback saw that detector go from open to closed
  trackStops,         \* track.stop() calls made so far
  \* NeuroScore: result of a scan, Gemini vision analysis
  score,              \* last handleBlinkDetected: [rate, hrv, shown, level]
  visionStep,         \* where startVisionAnalysis stands: "idle" | "waiting" | ...
  visionStream,       \* the stream startVisionAnalysis acquired: 0 (null) or a stream
  visionResult,       \* "" or the kind of text shown
  \* WebcamCapture: HRV and error
  hrvValue,           \* 0 (undefined) or the rmssd in ms last reported
  capHrv,             \* hrvValue as closed over by the interval's processFrame
  sessionHrv,         \* observer: the value last reported in the current session, 0 if none
  error,              \* TRUE once setError was called with a message
  \* neuro-coach edge function
  request,            \* the request being served
  response,           \* the Response returned
  \* HRVMonitor
  evaluation,         \* observer: the last evaluation [n, bufferMs, peaks, result]
  \* NeuroCoach
  messages,           \* the displayed list of [role, n]
  isLoading,
  conversationId,     \* 0 (null) or the id of a coach_conversations row
  communicationTone,  \* "" or the tone chosen
  conversationLoad,   \* loadOrCreateConversation: "pending" | "found" | "created"
  calls,              \* the sendMessage calls: what each closed over, and its step
  coachConversations, \* the rows of coach_conversations, by id: their messages
  lastSaved,          \* observer: 0 or the id of the row written last
  \* Gamification
  gamificationMounted,
  stressLevel,        \* the stressLevel prop: "" (undefined) or the last scan's level
  hrvProp,            \* the hrvValue prop: 0 (undefined) or the last scan's HRV
  userProgress,       \* total_scans of the user's user_progress row (0: no row)
  progressCalls,      \* the updateProgress calls: [step, total], total as read
  scansCompleted,     \* observer: the scans completed so far
  scansUnseen,        \* observer: a scan completed while the component was not mounted
  \* DashboardRH
  stats,              \* [lowPercent, moderatePercent, highPercent, totalScans, avgHRV]
  prediction,         \* [kind, percent]; kind "" before a prediction is set
  loading

env      == <<now, ticks, isMobile, streams, readyState>>
parent   == <<mounted, isScanning, isAnalyzing, progress, scanIntervalRef, results, completions>>
camera   == <<effScanning, faceLandmarker, srcObject, intervalRef, capBackground>>
detector == <<blinkCountRef, blinkCount, currentBlinkRate, scanStartTimeRef, lastEARRef,
              lastBlinkTimeRef, backgroundDataRef>>
watchdog == <<noFaceFramesRef, faceDetected, lowLightWarning>>
observe  == <<lastOutcome, eyeOpen, crossed, trackStops>>
vision   == <<visionStep, visionStream, visionResult>>
hrv      == <<hrvValue, capHrv, sessionHrv>>
coach    == <<request, response>>
chat     == <<messages, isLoading, conversationId, communicationTone, conversationLoad,
              calls, coachConversations, lastSaved>>
gamification == <<gamificationMounted, stressLevel, hrvProp, userProgress, progressCalls,
                  scansCompleted, scansUnseen>>
dashboard == <<stats, prediction, loading>>
others   == <<evaluation, chat, gamification, dashboard>>
vars     == <<env, parent, camera, detector, watchdog, isBackgroundMode, observe,
              score, vision, hrv, error, coach, others>>

\* ------------------------------------------------------------ helpers
\* No request has been served yet.
NoRequest == [method |-> "none", key |-> FALSE, body |-> "none", gateway |-> "none"]
NoResponse == [status |-> 0, json |-> FALSE, response |-> "absent", error |-> "absent"]

\* The HRV monitor has evaluated nothing yet.
NoEvaluation == [n |-> 0, bufferMs |-> 0, peaks |-> 0, result |-> 0]

\* The dashboard before its data is loaded.
NoStats == [lowPercent |-> 0, moderatePercent |-> 0, highPercent |-> 0,
            totalScans |-> 0, avgHRV |-> 0]
NoPrediction == [kind |-> "", percent |-> 0]

\* No scan has been scored yet.
NoScore == [rate |-> <<0, 1>>, hrv |-> 0, shown |-> "none", level |-> "none"]

RECURSIVE Gcd(_, _)
Gcd(a, b) == IF b = 0 THEN a ELSE Gcd(b, a % b)

\* The fraction n/d in lowest terms (d > 0).
Frac(n, d) == LET g == Gcd(n, d) IN <<n \div g, d \div g>>

Init ==
  /\ now = Epoch /\ ticks = 0 /\ isMobile \in BOOLEAN
  /\ streams = <<>> /\ readyState = 0
  /\ mounted = TRUE /\ isScanning = FALSE /\ isAnalyzing = FALSE
  /\ progress = 0 /\ scanIntervalRef = FALSE
  /\ results = <<>> /\ completions = <<>>
  /\ effScanning = FALSE /\ faceLandmarker = FALSE /\ srcObject = 0
  /\ intervalRef = FALSE /\ capBackground = FALSE
  /\ blinkCountRef = 0 /\ blinkCount = 0 /\ currentBlinkRate = 0
  /\ scanStartTimeRef = 0 /\ lastEARRef = EAR_INITIAL /\ lastBlinkTimeRef = 0
  /\ noFaceFramesRef = 0 /\ faceDetected = TRUE /\ lowLightWarning = FALSE
  /\ isBackgroundMode = FALSE /\ backgroundDataRef = <<>>
  /\ lastOutcome = "none" /\ eyeOpen = TRUE /\ crossed = FALSE /\ trackStops = 0
  /\ score = NoScore
  /\ visionStep = "idle" /\ visionStream = 0 /\ visionResult = ""
  /\ hrvValue = 0 /\ capHrv = 0 /\ sessionHrv = 0 /\ error = FALSE
  /\ request = NoRequest /\ response = NoResponse
  /\ evaluation = NoEvaluation
  /\ messages = <<>> /\ isLoading = FALSE /\ conversationId = 0
  /\ communicationTone = "" /\ conversationLoad = "pending"
  /\ calls = <<>> /\ coachConversations = <<>> /\ lastSaved = 0
  /\ gamificationMounted = FALSE /\ stressLevel = "" /\ hrvProp = 0
  /\ userProgress = 0 /\ progressCalls = <<>> /\ scansCompleted = 0
  /\ scansUnseen = FALSE
  /\ stats = NoStats /\ prediction = NoPrediction /\ loading = TRUE

\* ------------------------------------------------- WebcamCapture: pure parts
\* The platform's threshold profile (closed, reopen).
EAR_THRESHOLD == IF isMobile THEN 120 ELSE 150
EAR_OPEN == IF isMobile THEN 180 ELSE 200

\* A blink test that forgets the debounce interval.
BlinkDetectedNoDebounce(lastEar, ear, since) ==
  /\ lastEar # NaN /\ ear # NaN
  /\ lastEar > EAR_OPEN /\ ear <= EAR_THRESHOLD

\* The blink test of processFrame: the previous ratio, the current one and
\* the time since the last counted blink. A comparison with NaN is false.
BlinkDetected(lastEar, ear, since) ==
  /\ lastEar # NaN /\ ear # NaN
  /\ lastEar > EAR_OPEN /\ ear <= EAR_THRESHOLD /\ since > DEBOUNCE_MS

\* A rate that forgets to scale the seconds to minutes.
BlinkRatePerSecond(count, elapsedMs) == Frac(count * 1000, elapsedMs)

\* blinkCount / (elapsedTime / 60), elapsedTime in seconds.
BlinkRate(count, elapsedMs) == Frac(count * 60 * 1000, elapsedMs)

\* Math.round((blinkCount / elapsedTime) * 60 * 1000) / 1000, in thousandths.
CurrentRate(count, elapsedMs) ==
  (2 * count * 60 * 1000 * 1000 + elapsedMs) \div (2 * elapsedMs)

\* A termination test that compares milliseconds with the 60 of seconds.
FinalizesUnitSlip(elapsedMs) == elapsedMs >= SCAN_SECONDS

\* The termination test of processFrame.
Finalizes(elapsedMs) == elapsedMs >= SCAN_SECONDS * 1000

\* A soft warning that is off by one frame.
FaceLostEarly(frames) == frames >= NO_FACE_FRAMES

\* The two alerts of the no-face branch.
FaceLost(frames) == frames > NO_FACE_FRAMES
LowLight(frames) == frames > LOW_LIGHT_FRAMES

\* A stopWebcam that stops the tracks and leaves the stream attached.
StopWebcamKeepsSource(ref, src, strs, rs) ==
  IF ref /\ src # 0
    THEN [srcObject |-> src,
          streams |-> [strs EXCEPT ![src] = IF @ = "live" THEN "stopped" ELSE @],
          readyState |-> rs,
          stops |-> 1]
    ELSE [srcObject |-> src, streams |-> strs, readyState |-> rs, stops |-> 0]

\* stopWebcam on a video element (ref: videoRef.current is not null) whose
\* srcObject is src: every track is stopped and srcObject is cleared, which
\* empties the element (readyState HAVE_NOTHING). stops counts track.stop().
StopWebcam(ref, src, strs, rs) ==
  IF ref /\ src # 0
    THEN [srcObject |-> 0,
          streams |-> [strs EXCEPT ![src] = IF @ = "live" THEN "stopped" ELSE @],
          readyState |-> 0,
          stops |-> 1]
    ELSE [srcObject |-> src, streams |-> strs, readyState |-> rs, stops |-> 0]

\* ---------------------------------------------------- NeuroScore: pure parts
\* A handleScanComplete that leaves the progress where the interval left it.
HandleScanCompleteKeepsProgress(p) ==
  [p EXCEPT !.scanIntervalRef = FALSE, !.isScanning = FALSE]

\* handleScanComplete on the parent's state.
HandleScanComplete(p) ==
  [p EXCEPT !.scanIntervalRef = FALSE, !.isScanning = FALSE, !.progress = PROGRESS_FULL]

ParentState == [isScanning |-> isScanning, progress |-> progress,
                scanIntervalRef |-> scanIntervalRef]

\* Comparisons of a rate <<n, d>> (d > 0) with a whole number.
RateLess(rate, k) == rate[1] < k * rate[2]
RateMore(rate, k) == rate[1] > k * rate[2]

\* A classification whose moderate range leaves out its two ends.
StressLevelOpenRange(rate) ==
  IF RateMore(rate, 15) /\ RateLess(rate, 25) THEN "moderate"
  ELSE IF RateMore(rate, 25) THEN "high" ELSE "low"

\* handleBlinkDetected: the level by the independent thresholds.
StressLevel(rate) ==
  IF ~RateLess(rate, 15) /\ ~RateMore(rate, 25) THEN "moderate"
  ELSE IF RateMore(rate, 25) THEN "high" ELSE "low"

\* A cross-validation that already fires at a rate of 25.
CrossValidatedFromThreshold(level, rate, h) ==
  IF h # 0 /\ h < 30 /\ ~RateLess(rate, 25) THEN "high" ELSE level

\* A cross-validation that looks at the HRV value alone.
CrossValidatedByHrvAlone(level, rate, h) ==
  IF h # 0 /\ h < 30 THEN "high" ELSE level

\* handleBlinkDetected: the cross-validation of the level with the HRV value
\* (0 stands for undefined; both are falsy).
CrossValidated(level, rate, h) ==
  IF h # 0 /\ h < 30 /\ RateMore(rate, 25) THEN "high" ELSE level

\* handleBlinkDetected: shown is the level given to setResult, level the one
\* saved and given to onScoreComplete.
HandleBlinkDetected(rate, h) ==
  [rate |-> rate, hrv |-> h, shown |-> StressLevel(rate),
   level |-> CrossValidated(StressLevel(rate), rate, h)]

\* The hysteresis state after a ratio sample: closed at or below the closed
\* threshold, open above the reopen threshold, unchanged in the band.
EyeAfter(open, ear) ==
  IF ear \in {NaN, Infinity} THEN open
  ELSE IF ear <= EAR_THRESHOLD THEN FALSE ELSE IF ear > EAR_OPEN THEN TRUE ELSE open

\* ------------------------------------------------------------- effects
\* A scan effect that carries the blink count and its time over to the next
\* session.
ScanEffectKeepsCount(scanning, landmarker) ==
  IF scanning /\ landmarker
    THEN /\ currentBlinkRate' = 0
         /\ scanStartTimeRef' = 0 /\ lastEARRef' = EAR_RESET
         /\ intervalRef' = TRUE /\ capBackground' = isBackgroundMode
         /\ capHrv' = hrvValue
         /\ eyeOpen' = TRUE
         /\ UNCHANGED <<blinkCountRef, blinkCount, lastBlinkTimeRef, backgroundDataRef>>
    ELSE /\ intervalRef' = FALSE
         /\ UNCHANGED <<capBackground, capHrv, detector, eyeOpen>>

\* The scan control effect, run with the new isScanning and faceLandmarker:
\* the previous run's cleanup cleared the interval; the body resets the
\* session's refs and sets the 50 ms interval, or clears it.
ScanEffect(scanning, landmarker) ==
  IF scanning /\ landmarker
    THEN /\ blinkCountRef' = 0 /\ blinkCount' = 0 /\ currentBlinkRate' = 0
         /\ scanStartTimeRef' = 0 /\ lastEARRef' = EAR_RESET /\ lastBlinkTimeRef' = 0
         /\ intervalRef' = TRUE /\ capBackground' = isBackgroundMode
         /\ capHrv' = hrvValue
         /\ eyeOpen' = TRUE
         /\ UNCHANGED backgroundDataRef
    ELSE /\ intervalRef' = FALSE
         /\ UNCHANGED <<capBackground, capHrv, detector, eyeOpen>>

\* The camera control effect, run with the new isScanning and isAnalyzing:
\* the previous run's cleanup (which closed over the old isAnalyzing), then
\* startWebcam, or stopWebcam when neither scanning nor analyzing.
CameraEffect(scanning, analyzing) ==
  LET c == IF ~isAnalyzing
             THEN StopWebcam(TRUE, srcObject, streams, readyState)
             ELSE StopWebcam(FALSE, srcObject, streams, readyState)
      b == IF ~scanning /\ ~analyzing
             THEN StopWebcam(TRUE, c.srcObject, c.streams, c.readyState)
             ELSE StopWebcam(FALSE, c.srcObject, c.streams, c.readyState)
  IN /\ srcObject' = b.srcObject
     /\ readyState' = b.readyState
     /\ trackStops' = trackStops + c.stops + b.stops
     /\ IF scanning
          THEN /\ streams' = Append(b.streams, "pending")
               /\ faceDetected' = TRUE
          ELSE /\ streams' = b.streams
               /\ UNCHANGED faceDetected

\* ------------------------------------------------------------- actions
\* The Start Scan button (rendered and enabled only when neither scanning
\* nor analyzing): startScan, then the render it causes and both effects.
StartScan ==
  /\ mounted /\ ~isScanning /\ ~isAnalyzing /\ effScanning = isScanning
  /\ Len(streams) < MaxStreams
  /\ isScanning' = TRUE /\ progress' = 0 /\ scanIntervalRef' = TRUE
  /\ effScanning' = TRUE
  /\ CameraEffect(TRUE, isAnalyzing)
  /\ ScanEffect(TRUE, faceLandmarker)
  /\ visionResult' = "" /\ sessionHrv' = 0
  /\ UNCHANGED <<now, ticks, isMobile, mounted, isAnalyzing, results, completions,
                 faceLandmarker, noFaceFramesRef, lowLightWarning, isBackgroundMode,
                 lastOutcome, crossed, score, visionStep, visionStream, hrvValue,
                 error, coach, others>>

\* getUserMedia of stream i resolves: startWebcam attaches the stream if the
\* video element still exists.
GumResolve(i) ==
  /\ i \in 1..Len(streams) /\ streams[i] = "pending"
  /\ streams' = [streams EXCEPT ![i] = "live"]
  /\ IF mounted
       THEN srcObject' = i /\ readyState' = 0
       ELSE UNCHANGED <<srcObject, readyState>>
  /\ UNCHANGED <<now, ticks, isMobile, parent, effScanning, faceLandmarker, intervalRef,
                 capBackground, detector, watchdog, isBackgroundMode, observe,
                 score, vision, hrv, error, coach, others>>

\* The attached stream delivers frames: readyState reaches HAVE_ENOUGH_DATA.
VideoReady ==
  /\ mounted /\ srcObject # 0 /\ streams[srcObject] = "live"
  /\ readyState # HAVE_ENOUGH_DATA
  /\ readyState' = HAVE_ENOUGH_DATA
  /\ UNCHANGED <<now, ticks, isMobile, streams, parent, camera, detector, watchdog,
                 isBackgroundMode, observe, score, vision, hrv, error, coach, others>>

\* The capture device is lost: the attached stream ends. Whether the element
\* stops being ready or keeps its last frame is the browser's choice.
DeviceLost ==
  /\ mounted /\ srcObject # 0 /\ streams[srcObject] = "live"
  /\ streams' = [streams EXCEPT ![srcObject] = "ended"]
  /\ readyState' \in {0, readyState}
  /\ UNCHANGED <<now, ticks, isMobile, parent, camera, detector, watchdog,
                 isBackgroundMode, observe, score, vision, hrv, error, coach, others>>

\* initMediaPipe resolves: setFaceLandmarker, and the scan effect runs again.
LandmarkerLoaded ==
  /\ mounted /\ ~faceLandmarker
  /\ faceLandmarker' = TRUE
  /\ ScanEffect(isScanning, TRUE)
  /\ UNCHANGED <<env, parent, effScanning, srcObject, watchdog, isBackgroundMode,
                 lastOutcome, crossed, trackStops, score, vision, hrvValue, sessionHrv,
                 error, coach, others>>

\* A visibility handler that pauses the loop while the page is hidden.
VisibilityChangePauses ==
  /\ mounted
  /\ isBackgroundMode' = ~isBackgroundMode
  /\ intervalRef' = (intervalRef /\ isBackgroundMode)
  /\ UNCHANGED <<env, parent, effScanning, faceLandmarker, srcObject, capBackground,
                 detector, watchdog, observe, score, vision, hrv, error, coach, others>>

\* document visibilitychange: handleVisibilityChange.
VisibilityChange ==
  /\ mounted
  /\ isBackgroundMode' = ~isBackgroundMode
  /\ UNCHANGED <<env, parent, camera, detector, watchdog, observe, score, vision, hrv,
                 error, coach, others>>

\* The parent's 1000 ms progress interval.
ProgressTick ==
  /\ scanIntervalRef
  /\ progress < MaxProgressTicks * PROGRESS_STEP
  /\ IF progress >= PROGRESS_FULL
       THEN progress' = PROGRESS_FULL /\ scanIntervalRef' = FALSE
       ELSE progress' = progress + PROGRESS_STEP /\ UNCHANGED scanIntervalRef
  /\ UNCHANGED <<env, mounted, isScanning, isAnalyzing, results, completions, camera,
                 detector, watchdog, isBackgroundMode, observe, score, vision, hrv,
                 error, coach, others>>

\* An origin taken anew on every face tick.
ScanStartEveryTick(ref, t) == t

\* The origin of the elapsed time: set by the first face tick after a reset.
ScanStart(ref, t) == IF ref = 0 THEN t ELSE ref

\* processFrame with a detected face, at time t with combined ratio ear.
FaceFrame(ear, t) ==
  LET blink   == BlinkDetected(lastEARRef, ear, t - lastBlinkTimeRef)
      count   == IF blink THEN blinkCountRef + 1 ELSE blinkCountRef
      start   == ScanStart(scanStartTimeRef, t)
      elapsed == t - start
      final   == Finalizes(elapsed)
      stop    == IF final
                   THEN StopWebcam(TRUE, srcObject, streams, readyState)
                   ELSE StopWebcam(FALSE, srcObject, streams, readyState)
      done    == IF final THEN HandleScanComplete(ParentState) ELSE ParentState
  IN /\ noFaceFramesRef' = 0 /\ faceDetected' = TRUE /\ lowLightWarning' = FALSE
     /\ blinkCountRef' = count
     /\ blinkCount' = IF blink THEN count ELSE blinkCount
     /\ lastBlinkTimeRef' = IF blink THEN t ELSE lastBlinkTimeRef
     /\ backgroundDataRef' = IF blink /\ capBackground
                               THEN Append(backgroundDataRef, <<count, t>>)
                               ELSE backgroundDataRef
     /\ lastEARRef' = ear
     /\ scanStartTimeRef' = start
     /\ currentBlinkRate' = IF elapsed > 0 THEN CurrentRate(count, elapsed)
                                           ELSE currentBlinkRate
     /\ results' = IF final
                     THEN Append(results, [scan |-> Len(streams), blinks |-> count,
                                           rate |-> BlinkRate(count, elapsed),
                                           elapsedMs |-> elapsed, hrv |-> capHrv])
                     ELSE results
     /\ score' = IF final THEN HandleBlinkDetected(BlinkRate(count, elapsed), capHrv)
                           ELSE score
     /\ srcObject' = stop.srcObject /\ streams' = stop.streams
     /\ readyState' = stop.readyState /\ trackStops' = trackStops + stop.stops
     /\ completions' = IF final THEN Append(completions, Len(streams)) ELSE completions
     /\ isScanning' = done.isScanning /\ progress' = done.progress
     /\ scanIntervalRef' = done.scanIntervalRef
     /\ lastOutcome' = IF final THEN "final" ELSE "face"
     /\ eyeOpen' = EyeAfter(eyeOpen, ear)
     /\ crossed' = (eyeOpen /\ ear \notin {NaN, Infinity} /\ ear <= EAR_THRESHOLD)

\* A no-face branch that forgets the ratio of the last face tick.
NoFaceFrameResetsRatio ==
  /\ noFaceFramesRef' = noFaceFramesRef + 1
  /\ faceDetected' = IF FaceLost(noFaceFramesRef + 1) THEN FALSE ELSE faceDetected
  /\ lowLightWarning' = IF LowLight(noFaceFramesRef + 1) THEN TRUE ELSE lowLightWarning
  /\ lastOutcome' = "noface" /\ crossed' = FALSE
  /\ lastEARRef' = EAR_RESET
  /\ UNCHANGED <<streams, readyState, srcObject, blinkCountRef, blinkCount,
                 currentBlinkRate, scanStartTimeRef, lastBlinkTimeRef, backgroundDataRef,
                 eyeOpen, trackStops, isScanning, progress, scanIntervalRef, results,
                 completions, score>>

\* processFrame with no face in the frame.
NoFaceFrame ==
  /\ noFaceFramesRef' = noFaceFramesRef + 1
  /\ faceDetected' = IF FaceLost(noFaceFramesRef + 1) THEN FALSE ELSE faceDetected
  /\ lowLightWarning' = IF LowLight(noFaceFramesRef + 1) THEN TRUE ELSE lowLightWarning
  /\ lastOutcome' = "noface" /\ crossed' = FALSE
  /\ UNCHANGED <<streams, readyState, srcObject, detector, eyeOpen, trackStops,
                 isScanning, progress, scanIntervalRef, results, completions, score>>

\* One callback of the 50 ms interval, gap ms after the previous one: the
\* processFrame the scan effect closed over (its isScanning and
\* faceLandmarker are those the interval was set with, both truthy; the
\* video element exists while the interval is set).
TimerTick(maxTicks, gap, face, ear) ==
  /\ intervalRef
  /\ ticks < maxTicks /\ now + gap <= Epoch + MaxClock
  /\ now' = now + gap /\ ticks' = ticks + 1
  /\ IF readyState # HAVE_ENOUGH_DATA
       THEN /\ lastOutcome' = "notready" /\ crossed' = FALSE
            /\ UNCHANGED <<streams, readyState, srcObject, detector, watchdog, eyeOpen,
                           trackStops, isScanning, progress, scanIntervalRef, results,
                           completions, score>>
       ELSE IF face THEN FaceFrame(ear, now + gap) ELSE NoFaceFrame
  /\ UNCHANGED <<isMobile, mounted, isAnalyzing, effScanning, faceLandmarker,
                 intervalRef, capBackground, isBackgroundMode, vision, hrv, error, coach, others>>

\* The render scheduled by a state change made in a timer callback, and the
\* effects whose dependencies changed.
Commit ==
  /\ mounted /\ effScanning # isScanning
  /\ effScanning' = isScanning
  /\ CameraEffect(isScanning, isAnalyzing)
  /\ ScanEffect(isScanning, faceLandmarker)
  /\ UNCHANGED <<now, ticks, isMobile, parent, faceLandmarker, noFaceFramesRef,
                 lowLightWarning, isBackgroundMode, lastOutcome, crossed, score, vision,
                 hrvValue, sessionHrv, error, coach, others>>

\* The page is left: the cleanups of NeuroScore (progress interval) and of
\* WebcamCapture (stopWebcam unless analyzing, the 50 ms interval), run
\* while the video element is still referenced; the state and refs of both
\* components are then discarded.
Unmount ==
  /\ mounted
  /\ mounted' = FALSE
  /\ LET c == IF ~isAnalyzing
                THEN StopWebcam(TRUE, srcObject, streams, readyState)
                ELSE StopWebcam(FALSE, srcObject, streams, readyState)
     IN /\ srcObject' = 0 /\ streams' = c.streams
        /\ readyState' = 0 /\ trackStops' = trackStops + c.stops
  /\ isScanning' = FALSE /\ isAnalyzing' = FALSE
  /\ progress' = 0 /\ scanIntervalRef' = FALSE
  /\ effScanning' = FALSE /\ faceLandmarker' = FALSE
  /\ intervalRef' = FALSE /\ capBackground' = FALSE
  /\ blinkCountRef' = 0 /\ blinkCount' = 0 /\ currentBlinkRate' = 0
  /\ scanStartTimeRef' = 0 /\ lastEARRef' = EAR_INITIAL /\ lastBlinkTimeRef' = 0
  /\ noFaceFramesRef' = 0 /\ faceDetected' = TRUE /\ lowLightWarning' = FALSE
  /\ isBackgroundMode' = FALSE /\ backgroundDataRef' = <<>>
  /\ lastOutcome' = "none" /\ eyeOpen' = TRUE /\ crossed' = FALSE
  /\ score' = NoScore /\ visionResult' = ""
  /\ UNCHANGED <<visionStep, visionStream>>
  /\ hrvValue' = 0 /\ capHrv' = 0 /\ sessionHrv' = 0 /\ error' = FALSE
  /\ UNCHANGED <<now, ticks, isMobile, results, completions, coach, others>>

\* getUserMedia of stream i rejects (no camera, or access denied): the catch
\* block of startWebcam sets the error message.
GumReject(i) ==
  /\ i \in 1..Len(streams) /\ streams[i] = "pending"
  /\ streams' = [streams EXCEPT ![i] = "rejected"]
  /\ error' = (error \/ mounted)
  /\ UNCHANGED <<now, ticks, isMobile, readyState, parent, camera, detector, watchdog,
                 isBackgroundMode, observe, score, vision, hrv, coach, others>>

\* The HRV monitor reports a value while the scan has frames to read:
\* handleHRVDetected.
HRVDetected(h) ==
  /\ mounted /\ isScanning /\ readyState = HAVE_ENOUGH_DATA
  /\ hrvValue' = h /\ sessionHrv' = h
  /\ UNCHANGED <<env, parent, camera, detector, watchdog, isBackgroundMode, observe,
                 score, vision, capHrv, error, coach, others>>

\* ------------------------------------------------- HRVMonitor (rPPG)
\* The component is imported by WebcamCapture; what an evaluation yields is
\* taken from section 4.5 of the specification. The buffer must span a
\* minimum duration (its length is left open there; 30 s is the span of the
\* reference trace) and hold two peaks at least, for one interval between
\* beats.
HRV_MIN_BUFFER_MS == 30000
HRV_MIN_PEAKS == 2

\* Buffer spans, peak counts and statistics of the evaluations.
MaxEvaluations == 2
BufferSpans == {0, 29950, 30000, 45000}
PeakCounts == 0..3

\* The rmssd an evaluation yields, 0 when it yields no result.
HRVResultFromOnePeak(bufferMs, peaks, rmssd) ==
  IF bufferMs < HRV_MIN_BUFFER_MS \/ peaks < 1 THEN 0 ELSE rmssd

HRVResult(bufferMs, peaks, rmssd) ==
  IF bufferMs < HRV_MIN_BUFFER_MS \/ peaks < HRV_MIN_PEAKS THEN 0 ELSE rmssd

\* One evaluation of the monitor during a scan: onHRVDetected is called with
\* the result when there is one, and not at all otherwise.
HRVEvaluation(bufferMs, peaks, rmssd) ==
  LET r == HRVResult(bufferMs, peaks, rmssd) IN
  /\ mounted /\ isScanning /\ readyState = HAVE_ENOUGH_DATA
  /\ evaluation.n < MaxEvaluations
  /\ evaluation' = [n |-> evaluation.n + 1, bufferMs |-> bufferMs, peaks |-> peaks,
                    result |-> r]
  /\ IF r = 0
       THEN UNCHANGED <<hrvValue, sessionHrv>>
       ELSE hrvValue' = r /\ sessionHrv' = r
  /\ UNCHANGED <<env, parent, camera, detector, watchdog, isBackgroundMode, observe,
                 score, vision, capHrv, error, coach, chat, gamification, dashboard>>

\* ------------------------------------------- Gemini vision analysis
\* An analysis button that is offered during a scan and leaves the scan on.
StartVisionAnalysisDuringScan(key) ==
  /\ mounted /\ ~isAnalyzing /\ effScanning = isScanning
  /\ visionStep = "idle" /\ Len(streams) < MaxStreams
  /\ IF ~key
       THEN UNCHANGED vars
       ELSE /\ visionResult' = ""
            /\ isAnalyzing' = TRUE
            /\ visionStep' = "waiting"
            /\ UNCHANGED <<env, mounted, isScanning, progress, scanIntervalRef, results,
                           completions, camera, detector, watchdog, isBackgroundMode,
                           observe, score, visionStream, hrv, error, coach, others>>

\* The Gemini analysis button (rendered and enabled only when neither
\* scanning nor analyzing): startVisionAnalysis up to its first await, then
\* the render it causes and the camera effect. Without an API key it returns
\* at once.
StartVisionAnalysis(key) ==
  /\ mounted /\ ~isScanning /\ ~isAnalyzing /\ effScanning = isScanning
  /\ visionStep = "idle" /\ Len(streams) < MaxStreams
  /\ IF ~key
       THEN UNCHANGED vars
       ELSE /\ scanIntervalRef' = FALSE /\ visionResult' = ""
            /\ isAnalyzing' = TRUE /\ isScanning' = FALSE
            /\ visionStep' = "waiting"
            /\ CameraEffect(FALSE, TRUE)
            /\ UNCHANGED <<now, ticks, isMobile, mounted, progress, results, completions,
                           effScanning, faceLandmarker, intervalRef, capBackground,
                           detector, noFaceFramesRef, lowLightWarning, isBackgroundMode,
                           lastOutcome, eyeOpen, crossed, score, visionStream, hrv,
                           error, coach, others>>

\* The end of startVisionAnalysis: what the path has set as the result, then
\* the finally block, the render and the camera effect. After an unmount the
\* state setters do nothing.
VisionFinally(text) ==
  /\ visionStep' = "idle"
  /\ IF mounted
       THEN /\ visionResult' = text
            /\ isAnalyzing' = FALSE /\ isScanning' = FALSE
            /\ CameraEffect(FALSE, FALSE)
       ELSE UNCHANGED <<visionResult, isAnalyzing, isScanning, streams, srcObject,
                        readyState, trackStops, faceDetected>>
  /\ UNCHANGED <<now, ticks, isMobile, mounted, progress, scanIntervalRef, results,
                 completions, effScanning, faceLandmarker, intervalRef, capBackground,
                 detector, noFaceFramesRef, lowLightWarning, isBackgroundMode,
                 lastOutcome, eyeOpen, crossed, score, visionStream, hrv, error, coach, others>>

\* The 500 ms wait is over: the video element is looked up; without one the
\* run returns, with one getUserMedia is called.
VisionWait ==
  /\ visionStep = "waiting"
  /\ IF mounted
       THEN /\ visionStep' = "acquiring"
            /\ UNCHANGED <<env, parent, camera, detector, watchdog, isBackgroundMode,
                           observe, score, visionStream, visionResult, hrv, error, coach, others>>
       ELSE VisionFinally(visionResult)

\* getUserMedia of the analysis resolves (the stream is attached to the video
\* element and played) or rejects.
VisionGum(ok) ==
  /\ visionStep = "acquiring"
  /\ IF ok
       THEN /\ streams' = Append(streams, "live")
            /\ visionStream' = Len(streams) + 1
            /\ visionStep' = "capturing"
            /\ IF mounted
                 THEN srcObject' = Len(streams) + 1 /\ readyState' = 0
                 ELSE UNCHANGED <<srcObject, readyState>>
            /\ UNCHANGED <<now, ticks, isMobile, parent, effScanning, faceLandmarker,
                           intervalRef, capBackground, detector, watchdog,
                           isBackgroundMode, observe, score, visionResult, hrv, error,
                           coach, others>>
       ELSE VisionFinally("")

\* play and the capture of the ten frames: done, the tracks of the stream are
\* stopped and the frames are sent; or play rejects or the canvas gives no
\* context, and the run ends in the catch block.
VisionCapture(ok) ==
  /\ visionStep = "capturing"
  /\ IF ok
       THEN /\ streams' = [streams EXCEPT ![visionStream] = IF @ = "live" THEN "stopped" ELSE @]
            /\ trackStops' = trackStops + 1
            /\ visionStep' = "fetching"
            /\ UNCHANGED <<now, ticks, isMobile, readyState, parent, camera, detector,
                           watchdog, isBackgroundMode, lastOutcome, eyeOpen, crossed,
                           score, visionStream, visionResult, hrv, error, coach, others>>
       ELSE VisionFinally("")

\* What the Gemini API call can do.
VisionOutcomes == {"text", "notext", "429", "notok", "neterror"}

\* The text the run leaves for an outcome of the API call: the model's text,
\* the default text for a reply without one, the local fallback analysis on
\* 429, nothing for another HTTP error or a failed fetch.
VisionText(outcome) ==
  CASE outcome = "text"   -> "gemini"
    [] outcome = "notext" -> "default"
    [] outcome = "429"    -> "fallback"
    [] OTHER              -> ""

\* The API call returns.
VisionFetch(outcome) ==
  /\ visionStep = "fetching"
  /\ VisionFinally(VisionText(outcome))

\* ------------------------------------------------ neuro-coach function
\* What a request to the function can look like: its method, whether
\* LOVABLE_API_KEY is set, its body (empty; not JSON; the JSON null; an
\* object without messages; a well-formed one), and what the AI gateway does
\* when called (a reply with content, with empty content, without content,
\* without choices, a body that is not JSON, 429, 402, another HTTP error, a
\* failed fetch).
Methods == {"OPTIONS", "POST", "GET"}
Bodies == {"empty", "malformed", "null", "nomessages", "valid"}
Gateways == {"content", "emptycontent", "nocontent", "nochoices", "badjson",
             "429", "402", "500", "neterror"}

\* A JSON Response with status 200.
JsonOk(text, err) == [status |-> 200, json |-> TRUE, response |-> text, error |-> err]

\* The catch block: the friendly fallback, always 200.
Fallback(err) == JsonOk("fallback", err)

\* A handler that passes the gateway's error status on.
GatewayReplyPassesStatus(gateway) ==
  CASE gateway = "429" -> [status |-> 429, json |-> TRUE, response |-> "absent",
                           error |-> "Rate limit exceeded"]
    [] gateway = "402" -> [status |-> 402, json |-> TRUE, response |-> "absent",
                           error |-> "Payment required"]
    [] gateway \in {"500", "neterror", "badjson"} -> Fallback("thrown")
    [] gateway \in {"nocontent", "nochoices"} -> JsonOk("default", "absent")
    [] gateway = "emptycontent" -> JsonOk("", "absent")
    [] OTHER -> JsonOk("reply", "absent")

\* The handler from the gateway call on: 429 and 402 are answered in place,
\* another HTTP error, a failed fetch and a body that is not JSON throw, a
\* reply without content gets the default text.
GatewayReply(gateway) ==
  CASE gateway = "429" -> JsonOk("ratelimit", "Rate limit exceeded")
    [] gateway = "402" -> JsonOk("unavailable", "Payment required")
    [] gateway \in {"500", "neterror", "badjson"} -> Fallback("thrown")
    [] gateway \in {"nocontent", "nochoices"} -> JsonOk("default", "absent")
    [] gateway = "emptycontent" -> JsonOk("", "absent")
    [] OTHER -> JsonOk("reply", "absent")

\* The serve handler.
Serve(req) ==
  IF req.method = "OPTIONS"
    THEN [status |-> 200, json |-> FALSE, response |-> "absent", error |-> "absent"]
  ELSE IF ~req.key THEN JsonOk("config", "LOVABLE_API_KEY missing")
  ELSE IF req.body # "valid" THEN Fallback("thrown")
  ELSE GatewayReply(req.gateway)

\* A request arrives and is answered.
ServeRequest(method, key, body, gateway) ==
  /\ request' = [method |-> method, key |-> key, body |-> body, gateway |-> gateway]
  /\ response' = Serve(request')
  /\ UNCHANGED <<env, parent, camera, detector, watchdog, isBackgroundMode, observe,
                 score, vision, hrv, error, others>>

NextCoach ==
  \E method \in Methods, key \in BOOLEAN, body \in Bodies, gateway \in Gateways :
    ServeRequest(method, key, body, gateway)

SpecCoach == Init /\ [][NextCoach]_vars

\* ------------------------------------------------- NeuroCoach (chat)
\* The component is mounted with a stress level; the user is signed in unless
\* an action says otherwise.
MaxMessages == 2
Tones == {"technical", "casual"}

\* The initial message, the user's n-th message and the reply to it.
InitialMessage == [role |-> "assistant", n |-> 0]
UserMessage(n) == [role |-> "user", n |-> n]
AssistantMessage(n) == [role |-> "assistant", n |-> n]

\* The tone selector, shown until a tone is chosen.
ChooseTone(tone) ==
  /\ communicationTone = ""
  /\ communicationTone' = tone
  /\ UNCHANGED <<env, parent, camera, detector, watchdog, isBackgroundMode, observe,
                 score, vision, hrv, error, coach, evaluation, gamification, dashboard, messages, isLoading,
                 conversationId, conversationLoad, calls, coachConversations, lastSaved>>

\* loadOrCreateConversation settles: the latest conversation of this stress
\* level is found and shown, or there is none and (the list having been
\* empty at mount) the initial message is shown.
LoadConversation(found) ==
  /\ conversationLoad = "pending"
  /\ IF found
       THEN /\ conversationLoad' = "found"
            /\ coachConversations' = Append(coachConversations, <<InitialMessage>>)
            /\ messages' = <<InitialMessage>>
            /\ conversationId' = Len(coachConversations) + 1
       ELSE /\ conversationLoad' = "created"
            /\ messages' = <<InitialMessage>>
            /\ UNCHANGED <<coachConversations, conversationId>>
  /\ UNCHANGED <<env, parent, camera, detector, watchdog, isBackgroundMode, observe,
                 score, vision, hrv, error, coach, evaluation, gamification, dashboard, isLoading,
                 communicationTone, calls, lastSaved>>

\* sendMessage up to the call of the edge function, from the send button
\* (disabled while loading or without input) or from Enter in the text area
\* (never disabled). The call keeps the messages and conversationId of the
\* render it was made in.
SendMessage(enter, empty) ==
  /\ communicationTone # "" /\ Len(calls) < MaxMessages
  /\ ~enter => (~isLoading /\ ~empty)
  /\ IF empty
       THEN UNCHANGED vars
       ELSE /\ messages' = Append(messages, UserMessage(Len(calls) + 1))
            /\ isLoading' = TRUE
            /\ calls' = Append(calls, [messages |-> messages,
                                       conversationId |-> conversationId,
                                       step |-> "invoked"])
            /\ UNCHANGED <<env, parent, camera, detector, watchdog, isBackgroundMode,
                           observe, score, vision, hrv, error, coach, evaluation, gamification, dashboard,
                           conversationId, communicationTone, conversationLoad,
                           coachConversations, lastSaved>>

\* The edge function call of the i-th sendMessage returns: the reply is shown
\* and the save begins, or the call failed and the catch block ends the run.
InvokeReturns(i, ok) ==
  /\ i \in 1..Len(calls) /\ calls[i].step = "invoked"
  /\ IF ok
       THEN /\ messages' = Append(messages, AssistantMessage(i))
            /\ calls' = [calls EXCEPT ![i].step = "replied"]
            /\ UNCHANGED isLoading
       ELSE /\ calls' = [calls EXCEPT ![i].step = "failed"]
            /\ isLoading' = FALSE
            /\ UNCHANGED messages
  /\ UNCHANGED <<env, parent, camera, detector, watchdog, isBackgroundMode, observe,
                 score, vision, hrv, error, coach, evaluation, gamification, dashboard, conversationId,
                 communicationTone, conversationLoad, coachConversations, lastSaved>>

\* The list a sendMessage saves: the messages of its render, its own message
\* and the reply to it.
AllMessages(i) ==
  calls[i].messages \o <<UserMessage(i), AssistantMessage(i)>>

\* The save of the i-th sendMessage: an update of the row the call knew, or
\* (for a signed-in user) the insert of a new row whose id becomes
\* conversationId; then the finally block.
SaveConversation(i, user) ==
  /\ i \in 1..Len(calls) /\ calls[i].step = "replied"
  /\ IF calls[i].conversationId # 0
       THEN /\ coachConversations' =
                 [coachConversations EXCEPT ![calls[i].conversationId] = AllMessages(i)]
            /\ lastSaved' = calls[i].conversationId
            /\ calls' = [calls EXCEPT ![i].step = "done"]
            /\ UNCHANGED conversationId
       ELSE IF user
              THEN /\ coachConversations' = Append(coachConversations, AllMessages(i))
                   /\ lastSaved' = Len(coachConversations) + 1
                   /\ conversationId' = Len(coachConversations) + 1
                   /\ calls' = [calls EXCEPT ![i].step = "done"]
              ELSE /\ calls' = [calls EXCEPT ![i].step = "unsaved"]
                   /\ UNCHANGED <<coachConversations, lastSaved, conversationId>>
  /\ isLoading' = FALSE
  /\ UNCHANGED <<env, parent, camera, detector, watchdog, isBackgroundMode, observe,
                 score, vision, hrv, error, coach, evaluation, gamification, dashboard, messages,
                 communicationTone, conversationLoad>>

NextChat ==
  \/ \E tone \in Tones : ChooseTone(tone)
  \/ \E found \in BOOLEAN : LoadConversation(found)
  \/ \E enter \in BOOLEAN, empty \in BOOLEAN : SendMessage(enter, empty)
  \/ \E i \in 1..MaxMessages + 1, ok \in BOOLEAN : InvokeReturns(i, ok)
  \/ \E i \in 1..MaxMessages + 1, user \in BOOLEAN : SaveConversation(i, user)

SpecChat == Init /\ [][NextChat]_vars

\* ------------------------------------------------------ Gamification
\* The component gets the level and the HRV value of the last completed scan
\* (the arguments of onScoreComplete) as its props.
MaxScans == 2
MaxProgressCalls == 3
Levels == {"low", "high"}
ScanHrv == {0, 40}

\* An updateProgress call that has just begun.
ProgressCall == [step |-> "reading", total |-> 0]

\* The effect with dependencies [stressLevel, hrvValue], at mount or at a
\* render with the props level and h: updateProgress is called when there is
\* a stress level and the render is the first or a dependency has changed.
ProgressEffect(mount, level, h) ==
  IF level # "" /\ (mount \/ level # stressLevel \/ h # hrvProp)
    THEN Append(progressCalls, ProgressCall)
    ELSE progressCalls

\* A scan completes: onScoreComplete hands its level and HRV value on, and
\* the mounted component is rendered with them.
ScanCompleted(level, h) ==
  /\ scansCompleted < MaxScans /\ Len(progressCalls) < MaxProgressCalls
  /\ scansCompleted' = scansCompleted + 1
  /\ scansUnseen' = (scansUnseen \/ ~gamificationMounted)
  /\ stressLevel' = level /\ hrvProp' = h
  /\ progressCalls' = IF gamificationMounted THEN ProgressEffect(FALSE, level, h)
                                              ELSE progressCalls
  /\ UNCHANGED <<env, parent, camera, detector, watchdog, isBackgroundMode, observe,
                 score, vision, hrv, error, coach, evaluation, chat, dashboard,
                 gamificationMounted, userProgress>>

\* The component is mounted with the current props: both effects run.
MountGamification ==
  /\ ~gamificationMounted /\ Len(progressCalls) < MaxProgressCalls
  /\ gamificationMounted' = TRUE
  /\ progressCalls' = ProgressEffect(TRUE, stressLevel, hrvProp)
  /\ UNCHANGED <<env, parent, camera, detector, watchdog, isBackgroundMode, observe,
                 score, vision, hrv, error, coach, evaluation, chat, dashboard,
                 stressLevel, hrvProp, userProgress, scansCompleted,
                 scansUnseen>>

UnmountGamification ==
  /\ gamificationMounted
  /\ gamificationMounted' = FALSE
  /\ UNCHANGED <<env, parent, camera, detector, watchdog, isBackgroundMode, observe,
                 score, vision, hrv, error, coach, evaluation, chat, dashboard,
                 stressLevel, hrvProp, userProgress, progressCalls,
                 scansCompleted, scansUnseen>>

\* updateProgress reads the user's row.
ProgressRead(i) ==
  /\ i \in 1..Len(progressCalls) /\ progressCalls[i].step = "reading"
  /\ progressCalls' = [progressCalls EXCEPT ![i] = [step |-> "read", total |-> userProgress]]
  /\ UNCHANGED <<env, parent, camera, detector, watchdog, isBackgroundMode, observe,
                 score, vision, hrv, error, coach, evaluation, chat, dashboard,
                 gamificationMounted, stressLevel, hrvProp, userProgress, scansCompleted,
                 scansUnseen>>

\* updateProgress upserts the row with the total it read plus one.
ProgressUpsert(i) ==
  /\ i \in 1..Len(progressCalls) /\ progressCalls[i].step = "read"
  /\ userProgress' = progressCalls[i].total + 1
  /\ progressCalls' = [progressCalls EXCEPT ![i].step = "done"]
  /\ UNCHANGED <<env, parent, camera, detector, watchdog, isBackgroundMode, observe,
                 score, vision, hrv, error, coach, evaluation, chat, dashboard,
                 gamificationMounted, stressLevel, hrvProp, scansCompleted, scansUnseen>>

NextGamification ==
  \/ \E level \in Levels, h \in ScanHrv : ScanCompleted(level, h)
  \/ MountGamification
  \/ UnmountGamification
  \/ \E i \in 1..MaxProgressCalls : ProgressRead(i)
  \/ \E i \in 1..MaxProgressCalls : ProgressUpsert(i)

SpecGamification == Init /\ [][NextGamification]_vars

\* ------------------------------------------------------- DashboardRH
\* The scans of the last seven days that the query returns: how many of
\* each level (100 at most in the program), and their HRV values.
MaxLevelScans == 3
HrvLists == {<<>>, <<40>>, <<20, 41>>}

\* Math.round of n / d for n >= 0, d > 0.
Round(n, d) == (2 * n + d) \div (2 * d)

RECURSIVE Sum(_)
Sum(seq) == IF seq = <<>> THEN 0 ELSE Head(seq) + Sum(Tail(seq))

\* The statistics of low, moderate and high scans with the HRV values hrvs.
Stats(low, moderate, high, hrvs) ==
  LET total == low + moderate + high
  IN [lowPercent |-> Round(low * 100, total),
      moderatePercent |-> Round(moderate * 100, total),
      highPercent |-> Round(high * 100, total),
      totalScans |-> total,
      avgHRV |-> IF hrvs = <<>> THEN 0 ELSE Round(Sum(hrvs), Len(hrvs))]

\* The prediction text for the statistics st: its kind and the percentage
\* it quotes.
Prediction(st) ==
  IF st.highPercent > 30 THEN [kind |-> "high", percent |-> st.highPercent]
  ELSE IF st.moderatePercent > 50
         THEN [kind |-> "moderate", percent |-> st.moderatePercent]
         ELSE [kind |-> "low", percent |-> st.lowPercent]

\* loadRHData, called once by the mount effect: without a user or on a query
\* error only loading is cleared; with scans the statistics are set from
\* them and the prediction from the stats of the render the function was
\* created in.
LoadRHData(user, ok, low, moderate, high, hrvs) ==
  /\ loading
  /\ loading' = FALSE
  /\ IF user /\ ok /\ low + moderate + high > 0
       THEN /\ stats' = Stats(low, moderate, high, hrvs)
            /\ prediction' = Prediction(stats)
       ELSE UNCHANGED <<stats, prediction>>
  /\ UNCHANGED <<env, parent, camera, detector, watchdog, isBackgroundMode, observe,
                 score, vision, hrv, error, coach, evaluation, chat, gamification>>

NextDashboard ==
  \E user \in BOOLEAN, ok \in BOOLEAN, low \in 0..MaxLevelScans,
     moderate \in 0..MaxLevelScans, high \in 0..MaxLevelScans, hrvs \in HrvLists :
    LoadRHData(user, ok, low, moderate, high, hrvs)

SpecDashboard == Init /\ [][NextDashboard]_vars

\* ------------------------------------------------------ specifications
Next ==
  \/ StartScan
  \/ \E i \in 1..MaxStreams + 1 : GumResolve(i)
  \/ VideoReady
  \/ DeviceLost
  \/ LandmarkerLoaded
  \/ VisibilityChange
  \/ ProgressTick
  \/ \E gap \in TickGaps, face \in BOOLEAN, ear \in EarSamples :
       TimerTick(MaxTicks, gap, face, ear)
  \/ Commit
  \/ Unmount

Spec == Init /\ [][Next]_vars

\* The same program under the nominal cadence and an open eye, for the
\* long runs of the face-presence watchdog.
NextWatchdog ==
  \/ StartScan
  \/ \E i \in 1..MaxStreams + 1 : GumResolve(i)
  \/ VideoReady
  \/ DeviceLost
  \/ LandmarkerLoaded
  \/ VisibilityChange
  \/ ProgressTick
  \/ \E gap \in WatchdogGaps, face \in BOOLEAN, ear \in WatchdogEars :
       TimerTick(MaxWatchdogTicks, gap, face, ear)
  \/ Unmount

SpecWatchdog == Init /\ [][NextWatchdog]_vars

\* WebcamCapture hands a blink rate and an HRV value to onBlinkDetected.
BlinkRateHandedOver(rate, h) ==
  /\ mounted
  /\ score' = HandleBlinkDetected(rate, h)
  /\ UNCHANGED <<env, parent, camera, detector, watchdog, isBackgroundMode, observe,
                 vision, hrv, error, coach, others>>

\* handleBlinkDetected over a range of rates and HRV values.
RateSamples == {Frac(n, 2) : n \in 0..MaxRateHalves}

NextClassify ==
  \E rate \in RateSamples, h \in ClassifyHrv : BlinkRateHandedOver(rate, h)

SpecClassify == Init /\ [][NextClassify]_vars

\* Scans and vision analyses on one page: a camera that may be denied or
\* lost, the HRV monitor, degenerate eye geometry (the progress bar and the
\* visibility flag left aside).
NextSession ==
  \/ StartScan
  \/ \E i \in 1..MaxStreams + 1 : GumResolve(i)
  \/ \E i \in 1..MaxStreams + 1 : GumReject(i)
  \/ VideoReady
  \/ DeviceLost
  \/ LandmarkerLoaded
  \/ \E h \in HrvSamples : HRVDetected(h)
  \/ \E gap \in SessionGaps, face \in BOOLEAN, ear \in SessionEars :
       TimerTick(MaxTicks, gap, face, ear)
  \/ Commit
  \/ \E key \in BOOLEAN : StartVisionAnalysis(key)
  \/ VisionWait
  \/ \E ok \in BOOLEAN : VisionGum(ok)
  \/ \E ok \in BOOLEAN : VisionCapture(ok)
  \/ \E outcome \in VisionOutcomes : VisionFetch(outcome)
  \/ Unmount

SpecSession == Init /\ [][NextSession]_vars

\* The interval's callback as it repeats without end. What only grows is
\* held where it stops mattering: the clock runs over the window in which a
\* face can still be seen and then stands, the no-face counter stands once
\* both alerts are on, and the callbacks are not numbered.
MaxFairClock == 90000
FairGaps == {30000}
FairEars == {300}

IntervalTick(gap, face, ear) ==
  /\ intervalRef
  /\ face => now + gap <= Epoch + MaxFairClock
  /\ now' = IF now + gap <= Epoch + MaxFairClock THEN now + gap ELSE now
  /\ IF readyState # HAVE_ENOUGH_DATA
       THEN /\ lastOutcome' = "notready" /\ crossed' = FALSE
            /\ UNCHANGED <<streams, readyState, srcObject, detector, watchdog, eyeOpen,
                           trackStops, isScanning, progress, scanIntervalRef, results,
                           completions, score>>
       ELSE IF face
              THEN FaceFrame(ear, now + gap)
              ELSE IF noFaceFramesRef > LOW_LIGHT_FRAMES
                     THEN /\ lastOutcome' = "noface" /\ crossed' = FALSE
                          /\ UNCHANGED <<streams, readyState, srcObject, detector,
                                         watchdog, eyeOpen, trackStops, isScanning,
                                         progress, scanIntervalRef, results, completions,
                                         score>>
                     ELSE NoFaceFrame
  /\ UNCHANGED <<ticks, isMobile, mounted, isAnalyzing, effScanning, faceLandmarker,
                 intervalRef, capBackground, isBackgroundMode, vision, hrv, error, coach,
                 others>>

\* A scan with its timers running for as long as they are set. The camera
\* may be denied or lost and the landmark model may never load; the progress
\* interval, which touches neither isScanning nor the camera, is left aside.
NextFair ==
  \/ StartScan
  \/ \E i \in 1..MaxStreams + 1 : GumResolve(i)
  \/ \E i \in 1..MaxStreams + 1 : GumReject(i)
  \/ VideoReady
  \/ DeviceLost
  \/ LandmarkerLoaded
  \/ \E gap \in FairGaps, face \in BOOLEAN, ear \in FairEars : IntervalTick(gap, face, ear)
  \/ Commit

\* The interval's callbacks and the renders they schedule always come.
SpecFair ==
  /\ Init /\ [][NextFair]_vars
  /\ WF_vars(\E gap \in FairGaps, face \in BOOLEAN, ear \in FairEars :
               IntervalTick(gap, face, ear))
  /\ WF_vars(Commit)

\* A scan with the HRV monitor evaluating its buffer.
NextHrv ==
  \/ StartScan
  \/ \E i \in 1..MaxStreams + 1 : GumResolve(i)
  \/ VideoReady
  \/ \E bufferMs \in BufferSpans, peaks \in PeakCounts, rmssd \in HrvSamples :
       HRVEvaluation(bufferMs, peaks, rmssd)
  \/ Unmount

SpecHrv == Init /\ [][NextHrv]_vars

\* ------------------------------------------------------------- claims
\* One callback of the 50 ms interval ran in this step.
TickStep == ticks' = ticks + 1
\* ... and it processed a frame in which a face was detected.
FaceStep == TickStep /\ lastOutcome' \in {"face", "final"}

\* C1 (as claimed): every full blink cycle counts exactly once. On a
\* face-detected tick, blinkCount goes up by 1 when the ratio stream falls
\* from the open state (last seen above the reopen threshold) to at or
\* below the closed threshold, in one tick or through the band, at least
\* 100 ms after the previously counted blink; a tick that is no such
\* closing (the reopening included) leaves blinkCount as it was.
C1_EveryCycleCountedOnce ==
  [][FaceStep =>
       /\ (crossed' /\ (lastBlinkTimeRef = 0 \/ now' - lastBlinkTimeRef >= 100))
            => blinkCountRef' = blinkCountRef + 1
       /\ ~crossed' => blinkCountRef' = blinkCountRef]_vars

\* C2: counted blinks are at least the 100 ms debounce interval apart. A step
\* that counts a blink records the tick's time as the last-blink time, later
\* than the previous one and at least 100 ms after it; a closing within
\* 100 ms of the last counted blink leaves blinkCount as it was; and the
\* timestamps logged in background mode are strictly increasing.
C2_DebounceSpacing ==
  [][/\ blinkCountRef' = blinkCountRef + 1
          => /\ lastBlinkTimeRef' = now'
             /\ lastBlinkTimeRef' > lastBlinkTimeRef
             /\ lastBlinkTimeRef # 0 => now' - lastBlinkTimeRef >= 100
     /\ (FaceStep /\ crossed' /\ lastBlinkTimeRef # 0 /\ now' - lastBlinkTimeRef < 100)
          => blinkCountRef' = blinkCountRef
     /\ \A i \in 1..Len(backgroundDataRef') - 1 :
          backgroundDataRef'[i + 1][2] > backgroundDataRef'[i][2]]_vars

\* C2 witness: a closing seen 80 ms after the one counted blink, not counted.
C2_Witness ==
  /\ lastOutcome = "face" /\ crossed
  /\ blinkCountRef = 1 /\ lastBlinkTimeRef # 0
  /\ now - lastBlinkTimeRef > 0 /\ now - lastBlinkTimeRef < 100

\* C3: the face-presence watchdog. With k = noFaceFramesRef, faceDetected is
\* true exactly while k <= 10 and the low-light warning is on exactly from
\* k = 31; k goes up by 1 on every processed tick without a face, is left
\* alone by a tick that returns before detection, and a tick with a face
\* sets k to 0, faceDetected to true and the warning to off.
WatchdogFlags ==
  /\ faceDetected = (noFaceFramesRef <= 10)
  /\ lowLightWarning = (noFaceFramesRef >= 31)

C3_Watchdog ==
  /\ WatchdogFlags
  /\ [][/\ WatchdogFlags'
        /\ (TickStep /\ lastOutcome' = "noface")
             => noFaceFramesRef' = noFaceFramesRef + 1
        /\ (TickStep /\ lastOutcome' = "notready")
             => UNCHANGED <<noFaceFramesRef, faceDetected, lowLightWarning>>
        /\ FaceStep
             => noFaceFramesRef' = 0 /\ faceDetected' /\ ~lowLightWarning'
        /\ (~TickStep /\ mounted')
             => UNCHANGED <<noFaceFramesRef, lowLightWarning>>]_vars

\* C3 witness: the 31st consecutive tick without a face has raised both alerts.
C3_Witness ==
  lastOutcome = "noface" /\ noFaceFramesRef = 31 /\ ~faceDetected /\ lowLightWarning

\* C4: the rate handed to onBlinkDetected is blinkCount / (elapsedSeconds / 60)
\* with the blinkCount and the elapsed time the finalizing tick leaves in the
\* refs (a blink counted on that very tick included); 20 blinks in 60 s give
\* exactly 20.
C4_FinalRate ==
  [][Len(results') = Len(results) + 1 =>
       LET r == results'[Len(results')]
       IN /\ r.rate[2] > 0
          /\ r.rate[1] * (now' - scanStartTimeRef') = blinkCountRef' * 60000 * r.rate[2]
          /\ BlinkRate(20, 60 * 1000) = <<20, 1>>]_vars

\* C4 witness: a result was handed over for a session that counted a blink.
C4_Witness ==
  /\ lastOutcome = "final" /\ Len(results) = 1
  /\ blinkCountRef >= 1 /\ results[1].rate[1] >= 1

\* C5 (as claimed): the termination check is made on every processed tick,
\* with or without a face. No result is emitted below 60 s, and a tick that
\* was processed without finalizing leaves less than 60 s between the first
\* successful tick and itself.
C5_TerminationOnEveryTick ==
  /\ \A i \in 1..Len(results) : results[i].elapsedMs >= 60000
  /\ (lastOutcome \in {"face", "noface"} /\ scanStartTimeRef # 0)
       => now - scanStartTimeRef < 60000

\* C6: finalization happens once per session. No two calls of onBlinkDetected
\* and no two calls of onScanComplete belong to the same scan, and a tick of
\* the interval that fires after the finalizing one (before the effect has
\* cleared it) changes no count, no rate and emits nothing.
OncePerScan ==
  /\ \A i, j \in 1..Len(results) : results[i].scan = results[j].scan => i = j
  /\ \A i, j \in 1..Len(completions) : completions[i] = completions[j] => i = j

C6_FinalizationOnce ==
  /\ OncePerScan
  /\ [][/\ OncePerScan'
        /\ (TickStep /\ ~isScanning)
             => UNCHANGED <<blinkCountRef, blinkCount, currentBlinkRate, results,
                            completions>>]_vars

\* C6 witness: the interval fired once more after the finalizing tick.
C6_Witness ==
  /\ lastOutcome = "notready" /\ ~isScanning /\ intervalRef
  /\ Len(results) = 1 /\ Len(completions) = 1

\* C7: no result below 60 s. A result is emitted only by a tick that leaves
\* at least 60 s between the session's first successful tick and itself; an
\* unmount, a lost device and the stop of a session emit nothing.
C7_NoEarlyResult ==
  [][/\ results' # results
          => /\ TickStep /\ Len(results') = Len(results) + 1
             /\ scanStartTimeRef' # 0 /\ now' - scanStartTimeRef' >= 60000
             /\ results'[Len(results')].elapsedMs = now' - scanStartTimeRef'
             /\ results'[Len(results')].scan = Len(streams)
     /\ completions' # completions => results' # results]_vars

\* C7 witness: a device lost before 60 s, the clock past 60 s, and no result.
C7_Witness ==
  /\ isScanning /\ srcObject # 0 /\ streams[srcObject] = "ended"
  /\ scanStartTimeRef # 0 /\ now - scanStartTimeRef >= 60000
  /\ results = <<>>

\* C8: a visibility change only flips the backgrounded flag, and a tick
\* counts a blink by the same test whether backgrounded or not.
C8_VisibilityOnlyFlag ==
  [][/\ (isBackgroundMode' # isBackgroundMode /\ mounted')
          => UNCHANGED <<blinkCountRef, blinkCount, scanStartTimeRef, lastEARRef,
                         lastBlinkTimeRef, noFaceFramesRef, intervalRef, now, ticks>>
     /\ FaceStep
          => (blinkCountRef' = blinkCountRef + 1)
               = (/\ lastEARRef > EAR_OPEN /\ lastEARRef' <= EAR_THRESHOLD
                  /\ now' - lastBlinkTimeRef > 100)
     /\ (TickStep /\ ~FaceStep) => blinkCountRef' = blinkCountRef]_vars

\* C8 witness: a blink counted by a tick that ran while backgrounded.
C8_Witness ==
  /\ isBackgroundMode /\ intervalRef /\ lastOutcome = "face"
  /\ blinkCountRef >= 1 /\ lastBlinkTimeRef = now

\* C9 (as claimed): once the session has ended (completed and committed, or
\* unmounted) and no getUserMedia call is pending, no stream has live tracks.
C9_CameraReleased ==
  ((~mounted \/ (~isScanning /\ effScanning = isScanning))
     /\ \A i \in 1..Len(streams) : streams[i] # "pending")
    => \A i \in 1..Len(streams) : streams[i] # "live"

\* C10: stopping is idempotent. stopWebcam applied a second time stops no
\* track and changes nothing; handleScanComplete applied a second time leaves
\* the scanning state and the progress as the first left them; after the
\* session completed there is no stream attached for a stop to release and
\* the progress stays full; no stream's track is ever stopped twice; and
\* the stops the effects make after completion stop no track and leave
\* isScanning and progress alone.
StopTwiceIsStopOnce ==
  LET a == StopWebcam(mounted, srcObject, streams, readyState)
      b == StopWebcam(mounted, a.srcObject, a.streams, a.readyState)
  IN /\ b.stops = 0 /\ b.srcObject = a.srcObject /\ b.streams = a.streams
     /\ HandleScanComplete(HandleScanComplete(ParentState)) = HandleScanComplete(ParentState)
     /\ (mounted /\ ~isScanning /\ Len(completions) > 0)
          => /\ StopWebcam(mounted, srcObject, streams, readyState).stops = 0
             /\ progress = PROGRESS_FULL /\ ~scanIntervalRef
     /\ trackStops <= Cardinality({i \in 1..Len(streams) : streams[i] \in {"stopped", "ended"}})

C10_StopIdempotent ==
  /\ StopTwiceIsStopOnce
  /\ [][/\ StopTwiceIsStopOnce'
        /\ (mounted' /\ ~isScanning /\ effScanning /\ ~effScanning')
             => UNCHANGED <<trackStops, srcObject, streams, isScanning, progress,
                            scanIntervalRef>>]_vars

\* C10 witness: a completed session after the effects' further stops.
C10_Witness ==
  /\ mounted /\ ~isScanning /\ ~effScanning /\ Len(completions) = 1
  /\ progress = PROGRESS_FULL /\ streams = <<"stopped">> /\ trackStops = 1

\* The streams that have a live track.
LiveStreams == {i \in 1..Len(streams) : streams[i] = "live"}

\* C11: at most one capture session is active. The scan and the vision
\* analysis are never both active; the tick interval is live only for a scan
\* whose effects have run, never during an analysis; an analysis runs only
\* while isAnalyzing (or after the page was left); at most one stream has a
\* live track; and a step that starts a scan or an analysis is taken only
\* when neither is active, no analysis is running and no interval is live.
OneSession ==
  /\ ~(isScanning /\ isAnalyzing)
  /\ intervalRef => (effScanning /\ ~isAnalyzing /\ visionStep = "idle")
  /\ (mounted /\ visionStep # "idle") = isAnalyzing
  /\ Cardinality(LiveStreams) <= 1

C11_OneSessionAtATime ==
  /\ OneSession
  /\ [][/\ OneSession'
        /\ ((isScanning' /\ ~isScanning) \/ (isAnalyzing' /\ ~isAnalyzing))
             => /\ ~isScanning /\ ~isAnalyzing /\ ~intervalRef /\ visionStep = "idle"
                /\ LiveStreams = {}
                /\ isScanning' # isAnalyzing']_vars

\* C11 witness: an analysis holds the camera after a scan has completed.
C11_Witness ==
  /\ isAnalyzing /\ ~isScanning /\ visionStep = "capturing"
  /\ Len(completions) = 1 /\ Cardinality(LiveStreams) = 1

\* C12: handleBlinkDetected classifies by the independent thresholds: a rate
\* below 15 is low, from 15 to 25 inclusive moderate, above 25 high; every
\* rate gets exactly one of the three; 10 is low, 20 moderate, 30 high.
C12_IndependentThresholds ==
  /\ score.shown # "none" =>
       /\ score.shown \in {"low", "moderate", "high"}
       /\ (score.shown = "low") = (score.rate[1] < 15 * score.rate[2])
       /\ (score.shown = "moderate")
            = (score.rate[1] >= 15 * score.rate[2] /\ score.rate[1] <= 25 * score.rate[2])
       /\ (score.shown = "high") = (score.rate[1] > 25 * score.rate[2])
  /\ StressLevel(<<10, 1>>) = "low"
  /\ StressLevel(<<20, 1>>) = "moderate"
  /\ StressLevel(<<30, 1>>) = "high"

\* C12 witness: a rate of exactly 25 was classified moderate.
C12_Witness ==
  score.rate = <<25, 1>> /\ score.shown = "moderate"

\* C13: the cross-validation. With an HRV value below 30 ms and a rate above
\* 25 the level saved and passed on is high; with a rate of 25 or less it is
\* the level of the independent thresholds; a rate of 18 with an HRV of 20 ms
\* stays moderate.
C13_CrossValidation ==
  /\ score.level # "none" =>
       /\ (score.hrv # 0 /\ score.hrv < 30 /\ score.rate[1] > 25 * score.rate[2])
            => score.level = "high"
       /\ score.rate[1] <= 25 * score.rate[2] => score.level = score.shown
       /\ HandleBlinkDetected(<<18, 1>>, 20).level = "moderate"

\* C13 witness: a rate of 18 with an HRV of 20 ms was scored moderate.
C13_Witness ==
  score.rate = <<18, 1>> /\ score.hrv = 20 /\ score.level = "moderate"

\* C14 (as claimed): the HRV value handed over with the final result is the
\* value the HRV monitor last reported in that session up to the finalizing
\* tick, and absent (0) if it reported none in that session.
C14_LatestSessionHrv ==
  [][Len(results') = Len(results) + 1 =>
       /\ results'[Len(results')].hrv = sessionHrv
       /\ score'.hrv = sessionHrv]_vars

\* C15: starting a scan resets the session. The session's refs are at their
\* reset values when its interval is set and until its first tick with a
\* face; the watchdog is at its baseline when a scan starts; and the first
\* tick with a face sets the time origin and counts a blink by that tick's
\* ratio alone, whatever an earlier session left.
SessionBaseline ==
  /\ blinkCountRef = 0 /\ blinkCount = 0 /\ currentBlinkRate = 0
  /\ lastEARRef = EAR_RESET /\ lastBlinkTimeRef = 0

WatchdogBaseline ==
  noFaceFramesRef = 0 /\ faceDetected /\ ~lowLightWarning

C15_StartResetsSession ==
  /\ (isScanning /\ intervalRef /\ scanStartTimeRef = 0) => SessionBaseline
  /\ [][/\ (isScanning' /\ intervalRef' /\ scanStartTimeRef' = 0) => SessionBaseline'
        /\ (isScanning' /\ ~isScanning)
             => /\ WatchdogBaseline'
                /\ scanStartTimeRef' = 0
                /\ intervalRef' = faceLandmarker
        /\ (FaceStep /\ scanStartTimeRef = 0)
             => /\ scanStartTimeRef' = now'
                /\ blinkCountRef' = IF lastEARRef' <= EAR_THRESHOLD THEN 1 ELSE 0]_vars

\* C15 witness: the first tick with a face of a second session, after a
\* first session that counted a blink.
C15_Witness ==
  /\ Len(results) = 1 /\ results[1].blinks >= 1
  /\ isScanning /\ Len(streams) = 2 /\ lastOutcome = "face"
  /\ scanStartTimeRef = now /\ blinkCountRef = 0

\* C16 (as claimed): when the camera is denied at the start of a scan the
\* session never runs: once getUserMedia has rejected, the error is set, the
\* scanning state is no longer active, and no tick of that session was
\* processed.
C16_CameraDenied ==
  (mounted /\ Len(streams) > 0 /\ streams[Len(streams)] = "rejected")
    => /\ error
       /\ ~isScanning
       /\ scanStartTimeRef = 0

\* C17 (as claimed): a stream that ends in the middle of a scan aborts the
\* session. A tick that finds the attached stream ended leaves the scanning
\* state with the stream detached and no result emitted.
C17_DeviceLostAborts ==
  [][(TickStep /\ isScanning /\ srcObject # 0 /\ streams[srcObject] = "ended")
       => /\ ~isScanning' /\ srcObject' = 0
          /\ results' = results]_vars

\* C18 (as claimed): a tick with degenerate eye geometry is no sample. The
\* previous ratio the detector keeps is never a degenerate value, and a tick
\* with a face counts a blink exactly when the ratio stream without its
\* degenerate samples closes from open, outside the debounce interval.
C18_DegenerateIsNoSample ==
  /\ lastEARRef \notin {NaN, Infinity}
  /\ [][/\ lastEARRef' \notin {NaN, Infinity}
        /\ FaceStep
             => (blinkCountRef' = blinkCountRef + 1)
                  = (crossed' /\ now' - lastBlinkTimeRef > DEBOUNCE_MS)]_vars

\* C19 (as claimed): the vision analysis always gives the user a result. A
\* run that captured its frames and whose API call has returned, whatever
\* the outcome, leaves a non-empty analysis text.
C19_AnalysisAlwaysAnswers ==
  [][(mounted /\ visionStep = "fetching" /\ visionStep' = "idle")
       => visionResult' # ""]_vars

\* C20: the neuro-coach function answers every request that is not OPTIONS
\* with status 200 and a JSON body holding a response string: without an API
\* key, on an empty or malformed body, on a gateway 429, 402 or other error,
\* on a reply without content and on a thrown exception alike.
C20_AlwaysOk ==
  (request.method \notin {"none", "OPTIONS"})
    => /\ response.status = 200
       /\ response.json
       /\ response.response # "absent"

\* C20 witness: a gateway 429 was answered with status 200 and a response.
C20_Witness ==
  /\ request.method = "POST" /\ request.key /\ request.body = "valid"
  /\ request.gateway = "429"
  /\ response.status = 200 /\ response.response = "ratelimit"

\* C21: an HRV evaluation whose buffer spans less than the minimum duration
\* or holds fewer than two peaks yields no result: the session is not called
\* back, its HRV value stays as it was (absent when none was reported
\* before), and no error is raised.
C21_NoResultWithoutData ==
  [][(/\ evaluation'.n = evaluation.n + 1
      /\ (evaluation'.bufferMs < 30000 \/ evaluation'.peaks < 2))
       => /\ evaluation'.result = 0
          /\ hrvValue' = hrvValue /\ sessionHrv' = sessionHrv
          /\ error' = error]_vars

C21_Witness ==
  /\ isScanning /\ evaluation.n = 1 /\ evaluation.bufferMs = 45000
  /\ evaluation.peaks = 1 /\ evaluation.result = 0 /\ hrvValue = 0 /\ sessionHrv = 0

\* C22 (as claimed): on a face-detected tick a blink is counted (blinkCount
\* up by one, last-blink time set to the tick's time) if and only if the
\* previous tick's ratio was above the reopen threshold, the current ratio
\* is at or below the closed threshold and at least 100 ms have passed since
\* the last counted blink, a crossing exactly 100 ms after it included; a
\* ratio rising back above the reopen threshold never changes blinkCount.
C22_CountedIffQualifying ==
  [][FaceStep =>
       LET qualifies == /\ lastEARRef > EAR_OPEN /\ lastEARRef' <= EAR_THRESHOLD
                        /\ now' - lastBlinkTimeRef >= 100
       IN /\ qualifies => /\ blinkCountRef' = blinkCountRef + 1
                          /\ lastBlinkTimeRef' = now'
          /\ ~qualifies => /\ blinkCountRef' = blinkCountRef
                           /\ lastBlinkTimeRef' = lastBlinkTimeRef
          /\ lastEARRef' > EAR_OPEN => blinkCountRef' = blinkCountRef]_vars

\* C23: the elapsed time is measured from the first tick of the session on
\* which a face was detected. A tick without a face or without a ready
\* frame leaves the origin as it is; the first face tick sets it to its own
\* time; once set, no tick moves it, and only the start of a session (or
\* leaving the page) clears it; a result's elapsed time is the time from the
\* origin to the finishing tick.
C23_OriginAtFirstFaceTick ==
  [][/\ (TickStep /\ ~FaceStep) => scanStartTimeRef' = scanStartTimeRef
     /\ (FaceStep /\ scanStartTimeRef = 0) => scanStartTimeRef' = now'
     /\ (TickStep /\ scanStartTimeRef # 0) => scanStartTimeRef' = scanStartTimeRef
     /\ (scanStartTimeRef # 0 /\ scanStartTimeRef' = 0)
          => (~isScanning /\ isScanning') \/ ~mounted'
     /\ (TickStep /\ lastOutcome' = "final")
          => results'[Len(results')].elapsedMs = now' - scanStartTimeRef']_vars

\* The origin was set by the second tick, after a tick that set none, and
\* the third tick, with a face again, has not moved it.
C23_Witness ==
  /\ ticks = 3 /\ lastOutcome = "face" /\ scanStartTimeRef = now - 50

\* C24: a tick on which no face is detected changes only the watchdog (the
\* no-face counter goes up by one; the flags follow it). The blink count and
\* its displayed copy, the previous ratio, the last-blink time, the origin
\* of the elapsed time and the displayed rate are as before, the scan goes
\* on without a result, and no error is raised.
C24_NoFaceTickOnlyWatchdog ==
  [][(TickStep /\ lastOutcome' = "noface")
       => /\ noFaceFramesRef' = noFaceFramesRef + 1
          /\ UNCHANGED <<blinkCountRef, blinkCount, lastEARRef, lastBlinkTimeRef,
                         scanStartTimeRef, currentBlinkRate, backgroundDataRef>>
          /\ UNCHANGED <<isScanning, results, score, streams, srcObject, error>>]_vars

\* A tick without a face after a counted blink: count, ratio and origin kept.
C24_Witness ==
  /\ lastOutcome = "noface" /\ blinkCountRef = 1 /\ lastEARRef = 120
  /\ lastBlinkTimeRef # 0 /\ scanStartTimeRef # 0 /\ currentBlinkRate # 0

\* C25 (as claimed): every started scan eventually leaves the scanning
\* state. With the interval's callbacks always coming, whatever the camera,
\* the landmark model and the face detection do, isScanning eventually
\* becomes false and no stream keeps a live track.
C25_ScanEventuallyEnds ==
  isScanning ~> (~isScanning /\ LiveStreams = {})

\* C26: the stress level of handleBlinkDetected depends on the blink rate
\* only. The level given to setResult equals the level saved and passed to
\* onScoreComplete; any HRV value, an absent one included, gives the same
\* level for the rate that was scored; and two calls in a row with the same
\* rate end in the same level whatever their HRV values.
C26_LevelByRateOnly ==
  /\ score.level # "none" =>
       /\ score.shown = score.level
       /\ \A h \in ClassifyHrv : HandleBlinkDetected(score.rate, h).level = score.level
  /\ [][(score.level # "none" /\ score'.level # "none" /\ score'.rate = score.rate)
         => score'.level = score.level /\ score'.shown = score.shown]_vars

\* The cross-validation fired (HRV 20 ms, rate 30) on a level that was high
\* already.
C26_Witness ==
  /\ score.rate = <<30, 1>> /\ score.hrv = 20
  /\ score.shown = "high" /\ score.level = "high"

\* C27 (as claimed): every vision analysis run that returns ends with
\* isAnalyzing and isScanning false and no live track on the stream it
\* acquired, on every path (no API key, no video element, camera error,
\* failed play or canvas, success, 429, another HTTP error, exception); no
\* run is left marked as analyzing once it has returned; and on the success
\* path the tracks are stopped before the API request is sent.
C27_AnalysisReleases ==
  /\ visionStep = "idle" => ~isAnalyzing
  /\ [][/\ (visionStep # "idle" /\ visionStep' = "idle")
             => ~isAnalyzing' /\ ~isScanning'
        /\ (visionStep \in {"capturing", "fetching"} /\ visionStep' = "idle")
             => streams'[visionStream] # "live"
        /\ (visionStep # "fetching" /\ visionStep' = "fetching")
             => streams'[visionStream'] # "live"]_vars

\* C28 (as claimed): after any sequence of successful sendMessage calls
\* (each made with the loaded conversation on display, replied to and
\* saved), a second message sent with Enter while the first awaits its reply
\* included, the message list last saved to coach_conversations equals the
\* list displayed, and all of them were saved to one conversation row.
C28_SavedEqualsDisplayed ==
  (/\ conversationLoad # "pending" /\ calls # <<>>
   /\ \A i \in 1..Len(calls) : calls[i].step = "done" /\ calls[i].messages # <<>>)
    => /\ coachConversations[lastSaved] = messages
       /\ Len(coachConversations) = 1

\* C29 (as claimed): total_scans equals the number of scans the user
\* completed. With the component mounted at every scan and now, and every
\* updateProgress finished, the stored total is the number of completed
\* scans: each scan added one, also when its level and HRV value equal
\* those of the scan before, and neither a mount nor a render with an
\* unchanged result added anything.
C29_TotalScansCountsScans ==
  (/\ gamificationMounted /\ ~scansUnseen
   /\ \A i \in 1..Len(progressCalls) : progressCalls[i].step = "done")
    => userProgress = scansCompleted

\* C30 (as claimed): after loadRHData the prediction text matches the
\* percentages just computed from the loaded scans: the high-risk warning
\* iff highPercent > 30, otherwise the moderate notice iff moderatePercent
\* > 50, otherwise the positive message, each quoting the percentage shown
\* in the statistics.
C30_PredictionMatchesStats ==
  (~loading /\ stats.totalScans > 0) => prediction = Prediction(stats)
====
